---- MODULE Spec2Model ----
(***************************************************************************)
(* Model of the Aleph Alpha backend (agent/backend/aleph_alpha_service.py) *)
(* and of the strategy factory (agent/backend/LLMStrategy.py).             *)
(*                                                                         *)
(* One request is processed at a time.  pc is the position inside the     *)
(* operation in progress; every call to an external service (completion,  *)
(* summarisation, explanation, vector store) is one step whose outcome is *)
(* chosen by the environment.  Texts are sequences of characters.         *)
(***************************************************************************)
EXTENDS Integers, Sequences, FiniteSets, TLC

VARIABLES
    pc,           \* position inside the operation in progress
    qa,           \* frame of qa_aleph_alpha
    search,       \* frame of search_documents_aleph_alpha
    explain,      \* frame of explain_completion
    factory,      \* frame of LLMStrategyFactory.get_strategy
    _strategies,  \* LLMStrategyFactory._strategies
    store,        \* the collection "Aleph_Alpha" of the vector store
    setup,        \* what the module-level collection setup has done so far
    completion,   \* frame of a direct call of send_completion_request
    embed,        \* frame of embedd_text_aleph_alpha and embedd_text_files_aleph_alpha
    context,      \* frame of the methods of LLMContext
    llm           \* LLMContext.llm

vars == <<pc, qa, search, explain, factory, _strategies, store, setup,
          completion, embed, context, llm>>

----------------------------------------------------------------------------
(* Bounds of the model *)

MaxDocs == 2
MaxAmount == 2
MaxItems == 2
MaxSetupRuns == 2
MaxPoints == 1
MaxFiles == 2

----------------------------------------------------------------------------
(* Texts *)

Contents == { <<"a">>, <<"b">> }
Metadatas == { "m1", "m2" }
Queries == { <<"c">> }
Tokens == { <<>>, <<"k">> }
Summaries == { <<"s">> }
Answers == { <<"x">>, <<"y">> }

RECURSIVE Join(_, _)
Join(sep, texts) ==
    IF texts = <<>> THEN <<>>
    ELSE IF Len(texts) = 1 THEN texts[1]
    ELSE texts[1] \o sep \o Join(sep, Tail(texts))

----------------------------------------------------------------------------
(* Exceptions *)

NoExc == [type |-> "none", msg |-> "none"]
ValueError(m) == [type |-> "ValueError", msg |-> m]
ProviderError == [type |-> "ProviderError", msg |-> "provider call failed"]
UnboundLocalError(name) == [type |-> "UnboundLocalError", msg |-> name]

Returned(v) == [kind |-> "return", value |-> v, exc |-> NoExc]
Raised(e) == [kind |-> "raise", value |-> <<>>, exc |-> e]
Pending == [kind |-> "none", value |-> <<>>, exc |-> NoExc]

----------------------------------------------------------------------------
(* Prompt template "qa.j2": fixed scaffolding around the text and the query *)

TemplateHead == <<"T">>
TemplateMid == <<"Q">>
TemplateTail == <<"A">>

generate_prompt(text, query) ==
    TemplateHead \o text \o TemplateMid \o query \o TemplateTail

----------------------------------------------------------------------------
(* The completion endpoint: what client.complete may do *)

CompleteRaises(e) == [raises |-> TRUE, exc |-> e, completions |-> <<>>]
CompleteResponds(c) == [raises |-> FALSE, exc |-> NoExc, completions |-> c]

CompleteOutcomes ==
    { CompleteRaises(ValueError("PROMPT_TOO_LONG")), CompleteRaises(ProviderError),
      CompleteResponds(<<>>), CompleteResponds(<< <<>> >>) }
    \cup { CompleteResponds(<<a>>) : a \in Answers }

send_completion_request_unchecked(text, token, outcome) ==
    IF text = <<>> THEN Raised(ValueError("Text cannot be None or empty."))
    ELSE IF token = <<>> THEN Raised(ValueError("Token cannot be None or empty."))
    ELSE IF outcome.raises THEN Raised(outcome.exc)
    ELSE IF outcome.completions = <<>> THEN Raised(ValueError("Response is empty."))
    ELSE Returned(outcome.completions[1])

(* lines 94-112; outcome is what client.complete does at line 102 *)
send_completion_request(text, token, outcome) ==
    IF text = <<>> THEN Raised(ValueError("Text cannot be None or empty."))
    ELSE IF token = <<>> THEN Raised(ValueError("Token cannot be None or empty."))
    ELSE IF outcome.raises THEN Raised(outcome.exc)
    ELSE IF outcome.completions = <<>> THEN Raised(ValueError("Response is empty."))
    ELSE IF outcome.completions[1] = <<>> THEN Raised(ValueError("Completion is empty."))
    ELSE Returned(outcome.completions[1])

(* The summarisation endpoint: what client.summarize may do *)
SummarizeOutcomes ==
    { [raises |-> FALSE, exc |-> NoExc, summary |-> s] : s \in Summaries }
    \cup { [raises |-> TRUE, exc |-> ProviderError, summary |-> <<>>] }

summarize_text_aleph_alpha(outcome) ==
    IF outcome.raises THEN Raised(outcome.exc) ELSE Returned(outcome.summary)

----------------------------------------------------------------------------
(* Frames of the operations that are not in progress *)

SearchIdle ==
    [aleph_alpha_token |-> <<>>, query |-> <<>>, amount |-> 0,
     connection_calls |-> 0, search_calls |-> 0, result |-> Pending]

ExplainIdle ==
    [prompt |-> <<>>, output |-> <<>>, token |-> <<>>, explain_calls |-> 0,
     explanations |-> <<>>, result |-> Pending]

FactoryIdle ==
    [strategy_type |-> "none", collection_name |-> "none", constructed |-> <<>>,
     result |-> Pending]

----------------------------------------------------------------------------
(* qa_aleph_alpha *)

Documents == { <<[page_content |-> c, metadata |-> m], 1>> : c \in Contents, m \in Metadatas }

RECURSIVE SeqsUpTo(_, _)
SeqsUpTo(S, n) ==
    IF n = 0 THEN { <<>> }
    ELSE LET shorter == SeqsUpTo(S, n - 1)
         IN  shorter \cup { Append(s, e) : s \in { t \in shorter : Len(t) = n - 1 }, e \in S }

NoMeta == [kind |-> "none", items |-> <<>>]
MetaOfDocument(d) == [kind |-> "dict", items |-> <<d[1].metadata>>]
MetaOfDocuments(docs) == [kind |-> "list", items |-> [i \in 1..Len(docs) |-> docs[i][1].metadata]]

QaIdle ==
    [documents |-> <<>>, query |-> <<>>, summarization |-> FALSE, aleph_alpha_token |-> <<>>,
     texts |-> <<>>, text |-> <<>>, meta_data |-> NoMeta, prompt |-> <<>>,
     answer |-> <<>>, answer_bound |-> FALSE, short_text |-> <<>>,
     summarize_calls |-> <<>>, completion_calls |-> <<>>, result |-> Pending]

qa_single_document_as_list(f) ==
    [f EXCEPT !.text = Join(<<" ">>, f.texts),
              !.meta_data = [kind |-> "list", items |-> <<f.documents[1][1].metadata>>]]

(* lines 257-277: aggregation up to the first external call *)
qa_single_document(f) ==
    [f EXCEPT !.text = f.documents[1][1].page_content,
              !.meta_data = MetaOfDocument(f.documents[1])]

qa_join_documents(f) ==
    [f EXCEPT !.text = Join(<<" ">>, f.texts),
              !.meta_data = MetaOfDocuments(f.documents)]

qa_render(f, text) == [f EXCEPT !.prompt = generate_prompt(text, f.query)]

qa_aleph_alpha(documents, query, summarization, token) ==
    /\ pc = "idle"
    /\ UNCHANGED <<completion, embed, context, llm>>
    /\ UNCHANGED <<search, explain, factory>>
    /\ UNCHANGED <<_strategies, store, setup>>
    /\ LET f0 == [QaIdle EXCEPT !.documents = documents, !.query = query,
                                !.summarization = summarization,
                                !.aleph_alpha_token = token,
                                !.texts = [i \in 1..Len(documents) |-> documents[i][1].page_content]]
       IN  IF Len(documents) = 1
           THEN LET f1 == qa_single_document(f0)
                IN  /\ qa' = qa_render(f1, f1.text)
                    /\ pc' = "qa_complete"
           ELSE IF summarization /\ Len(documents) > 0
           THEN /\ qa' = f0
                /\ pc' = "qa_summarize_documents"
           ELSE LET f1 == IF summarization
                          THEN [f0 EXCEPT !.meta_data = MetaOfDocuments(documents)]
                          ELSE qa_join_documents(f0)
                IN  /\ qa' = qa_render(f1, f1.text)
                    /\ pc' = "qa_complete"

(* lines 267-269, 274: one summarisation call per document *)
qa_summarize_document(outcome) ==
    /\ pc = "qa_summarize_documents"
    /\ UNCHANGED <<completion, embed, context, llm>>
    /\ UNCHANGED <<search, explain, factory, _strategies, store, setup>>
    /\ LET i == Len(qa.summarize_calls) + 1
           r == summarize_text_aleph_alpha(outcome)
           f1 == [qa EXCEPT !.summarize_calls =
                      Append(@, [phase |-> "aggregate", text |-> qa.texts[i], outcome |-> r])]
       IN  IF r.kind = "raise"
           THEN /\ qa' = [f1 EXCEPT !.result = Raised(r.exc)]
                /\ pc' = "done"
           ELSE LET f2 == [f1 EXCEPT !.text = @ \o r.value]
                IN  IF i < Len(qa.texts)
                    THEN /\ qa' = f2
                         /\ pc' = "qa_summarize_documents"
                    ELSE LET f3 == [f2 EXCEPT !.meta_data = MetaOfDocuments(qa.documents)]
                         IN  /\ qa' = qa_render(f3, f3.text)
                             /\ pc' = "qa_complete"

qa_return_first_prompt(f) ==
    Returned(<<f.answer, f.completion_calls[1].prompt, f.meta_data>>)

(* line 299: the tuple handed back to the caller *)
qa_return(f) == Returned(<<f.answer, f.prompt, f.meta_data>>)

(* line 286: does the handler of the first completion call start the fallback *)
is_prompt_too_long(e) == e.msg = "PROMPT_TOO_LONG"

(* lines 279-286, 299: the first completion call and its except clause *)
qa_complete(outcome) ==
    /\ pc = "qa_complete"
    /\ UNCHANGED <<completion, embed, context, llm>>
    /\ UNCHANGED <<search, explain, factory, _strategies, store, setup>>
    /\ LET r == send_completion_request(qa.prompt, qa.aleph_alpha_token, outcome)
           f1 == [qa EXCEPT !.completion_calls = Append(@, [prompt |-> qa.prompt, outcome |-> r])]
       IN  IF r.kind = "return"
           THEN LET f2 == [f1 EXCEPT !.answer = r.value, !.answer_bound = TRUE]
                IN  /\ qa' = [f2 EXCEPT !.result = qa_return(f2)]
                    /\ pc' = "done"
           ELSE IF r.exc.type # "ValueError"
           THEN /\ qa' = [f1 EXCEPT !.result = Raised(r.exc)]
                /\ pc' = "done"
           ELSE IF is_prompt_too_long(r.exc)
           THEN /\ qa' = f1
                /\ pc' = "qa_fallback_summarize"
           ELSE /\ qa' = [f1 EXCEPT !.result = Raised(UnboundLocalError("answer"))]
                /\ pc' = "done"

fallback_input_per_document(f) == IF f.texts = <<>> THEN f.text ELSE f.texts[1]

(* the text handed to the fallback summarisation, line 290 *)
fallback_input(f) == f.text

(* lines 290-293: summarise the aggregated text and render the prompt again *)
qa_fallback_summarize(outcome) ==
    /\ pc = "qa_fallback_summarize"
    /\ UNCHANGED <<completion, embed, context, llm>>
    /\ UNCHANGED <<search, explain, factory, _strategies, store, setup>>
    /\ LET r == summarize_text_aleph_alpha(outcome)
           f1 == [qa EXCEPT !.summarize_calls =
                      Append(@, [phase |-> "fallback", text |-> fallback_input(qa), outcome |-> r])]
       IN  IF r.kind = "raise"
           THEN /\ qa' = [f1 EXCEPT !.result = Raised(r.exc)]
                /\ pc' = "done"
           ELSE /\ qa' = qa_render([f1 EXCEPT !.short_text = r.value], r.value)
                /\ pc' = "qa_retry"

retry_failed_again(f, e) ==
    IF e.msg = "PROMPT_TOO_LONG" THEN <<f, "qa_fallback_summarize">>
    ELSE <<[f EXCEPT !.result = Raised(e)], "done">>

(* line 296: an exception of the second completion call leaves the except
   clause and the function *)
retry_failed(f, e) == <<[f EXCEPT !.result = Raised(e)], "done">>

(* lines 296, 299: the second completion call, inside the except clause *)
qa_retry(outcome) ==
    /\ pc = "qa_retry"
    /\ UNCHANGED <<completion, embed, context, llm>>
    /\ UNCHANGED <<search, explain, factory, _strategies, store, setup>>
    /\ LET r == send_completion_request(qa.prompt, qa.aleph_alpha_token, outcome)
           f1 == [qa EXCEPT !.completion_calls = Append(@, [prompt |-> qa.prompt, outcome |-> r])]
       IN  IF r.kind = "return"
           THEN LET f2 == [f1 EXCEPT !.answer = r.value, !.answer_bound = TRUE]
                IN  /\ qa' = [f2 EXCEPT !.result = qa_return(f2)]
                    /\ pc' = "done"
           ELSE /\ qa' = retry_failed(f1, r.exc)[1]
                /\ pc' = retry_failed(f1, r.exc)[2]

----------------------------------------------------------------------------
(* search_documents_aleph_alpha *)

Amounts == -1..MaxAmount

Wrapped(e) == [type |-> "Exception", msg |-> "Failed to search documents"]

ConnectionOutcomes == { [raises |-> FALSE, exc |-> NoExc], [raises |-> TRUE, exc |-> ProviderError] }

FoundDocument == <<[page_content |-> <<"a">>, metadata |-> "m1"], 1>>

SimilarityOutcomes(k) ==
    { [raises |-> FALSE, exc |-> NoExc, docs |-> d] : d \in { t \in SeqsUpTo({FoundDocument}, MaxAmount) : Len(t) <= k } }
    \cup { [raises |-> TRUE, exc |-> ProviderError, docs |-> <<>>] }

search_validate_no_amount(token, query, amount) ==
    IF token = <<>> THEN Raised(ValueError("Token cannot be None or empty."))
    ELSE IF query = <<>> THEN Raised(ValueError("Query cannot be None or empty."))
    ELSE Pending

(* lines 226-231 *)
search_validate(token, query, amount) ==
    IF token = <<>> THEN Raised(ValueError("Token cannot be None or empty."))
    ELSE IF query = <<>> THEN Raised(ValueError("Query cannot be None or empty."))
    ELSE IF amount < 1 THEN Raised(ValueError("Amount must be greater than 0."))
    ELSE Pending

search_documents_aleph_alpha(token, query, amount) ==
    /\ pc = "idle"
    /\ UNCHANGED <<completion, embed, context, llm>>
    /\ LET v == search_validate(token, query, amount)
           f == [SearchIdle EXCEPT !.aleph_alpha_token = token, !.query = query,
                                   !.amount = amount, !.result = v]
       IN  /\ search' = f
           /\ pc' = IF v.kind = "raise" THEN "done" ELSE "search_connect"
    /\ UNCHANGED <<qa, explain, factory, _strategies, store, setup>>

(* line 234 with its handler, lines 238-240 *)
search_connect(outcome) ==
    /\ pc = "search_connect"
    /\ UNCHANGED <<completion, embed, context, llm>>
    /\ LET f == [search EXCEPT !.connection_calls = @ + 1]
       IN  IF outcome.raises
           THEN /\ search' = [f EXCEPT !.result = Raised(Wrapped(outcome.exc))]
                /\ pc' = "done"
           ELSE /\ search' = f
                /\ pc' = "search_query"
    /\ UNCHANGED <<qa, explain, factory, _strategies, store, setup>>

(* lines 235-237 with their handler, lines 238-240 *)
search_query(outcome) ==
    /\ pc = "search_query"
    /\ UNCHANGED <<completion, embed, context, llm>>
    /\ LET f == [search EXCEPT !.search_calls = @ + 1]
       IN  search' = [f EXCEPT !.result = IF outcome.raises THEN Raised(Wrapped(outcome.exc))
                                          ELSE Returned(outcome.docs)]
    /\ pc' = "done"
    /\ UNCHANGED <<qa, explain, factory, _strategies, store, setup>>

----------------------------------------------------------------------------
(* explain_completion *)

Min(a, b) == IF a < b THEN a ELSE b

(* s[start:end] of Python, for 0 <= start *)
Slice(s, start, end) == SubSeq(s, start + 1, Min(end, Len(s)))

(* sub in s *)
Contains(s, sub) ==
    \E i \in 0..(Len(s) - Len(sub)) : SubSeq(s, i + 1, i + Len(sub)) = sub

(* np.round(score, decimals=3): scores are counted in 1/10000, the rounded
   value in 1/1000, halves go to the even neighbour *)
Round3(score) ==
    LET q == score \div 10
        r == score % 10
    IN  IF r < 5 THEN q
        ELSE IF r > 5 THEN q + 1
        ELSE IF q % 2 = 0 THEN q ELSE q + 1

(* result[key] = value on a dict that keeps insertion order *)
DictSet(d, key, value) ==
    IF \E i \in 1..Len(d) : d[i].key = key
    THEN [i \in 1..Len(d) |-> IF d[i].key = key THEN [key |-> key, value |-> value] ELSE d[i]]
    ELSE Append(d, [key |-> key, value |-> value])

Scores == { 5, 15, 900 }
ExplainPrompts == { <<>>, generate_prompt(<<"a">>, <<"c">>) }
Outputs == { <<>>, <<"x">> }

(* prompt_granularity="sentence", line 316: the spans the provider scores are
   the sentences of the prompt, given as <<start, length>> *)
Sentences(prompt) ==
    { x \in { <<0, 1>>, <<1, 1>>, <<2, 1>>, <<3, 2>> } : x[1] + x[2] <= Len(prompt) }

Items(prompt) ==
    { [start |-> x[1], length |-> x[2], score |-> c] : x \in Sentences(prompt), c \in Scores }

ExplainOutcomes(prompt) ==
    { [raises |-> FALSE, exc |-> NoExc, items |-> i] : i \in SeqsUpTo(Items(prompt), MaxItems) }
    \cup { [raises |-> TRUE, exc |-> ProviderError, items |-> <<>>] }

(* line 322: the order in which the items are walked *)
explanation_order(explanations) == explanations

(* lines 324-332 *)
RECURSIVE remove_template(_, _, _, _)
remove_template(prompt, template, explanations, result) ==
    IF explanations = <<>> THEN result
    ELSE LET item == Head(explanations)
             start == item.start
             end == item.start + item.length
             span == Slice(prompt, start, end)
         IN  remove_template(prompt, template, Tail(explanations),
                 IF ~ Contains(template, span)
                 THEN DictSet(result, span, Round3(item.score))
                 ELSE result)

(* lines 316-334 *)
explain_completion(prompt, output, token, outcome) ==
    /\ pc = "idle"
    /\ UNCHANGED <<completion, embed, context, llm>>
    /\ LET f == [ExplainIdle EXCEPT !.prompt = prompt, !.output = output, !.token = token,
                                    !.explain_calls = 1]
           template == generate_prompt(<<>>, <<>>)
       IN  IF outcome.raises
           THEN explain' = [f EXCEPT !.result = Raised(outcome.exc)]
           ELSE explain' = [f EXCEPT !.explanations = outcome.items,
                               !.result = Returned(remove_template(prompt, template,
                                              explanation_order(outcome.items), <<>>))]
    /\ pc' = "done"
    /\ UNCHANGED <<qa, search, factory, _strategies, store, setup>>

----------------------------------------------------------------------------
(* LLMStrategyFactory *)

ProviderIds == { "aleph-alpha", "openai", "gpt4all", "cohere", "ollama" }
StrategyTypes == ProviderIds \cup { "invalid_provider" }
CollectionNames == { "Aleph_Alpha", "other" }

(* lines 27-33 *)
Registry ==
    [p \in ProviderIds |->
        CASE p = "aleph-alpha" -> "AlephAlphaService"
          [] p = "openai" -> "OpenAIService"
          [] p = "gpt4all" -> "GPT4AllService"
          [] p = "cohere" -> "CohereService"
          [] p = "ollama" -> "OllamaService"]

(* dict.get with default None *)
DictGet(d, key) == IF key \in DOMAIN d THEN d[key] ELSE "None"

lookup_strategy_pop(registry, strategy_type) ==
    [strategy |-> DictGet(registry, strategy_type),
     registry |-> [p \in DOMAIN registry \ {strategy_type} |-> registry[p]]]

(* line 54: the lookup and what it leaves of the registry *)
lookup_strategy(registry, strategy_type) ==
    [strategy |-> DictGet(registry, strategy_type), registry |-> registry]

(* lines 54-58 *)
get_strategy(strategy_type, token, collection_name, constructor_raises) ==
    /\ pc = "idle"
    /\ UNCHANGED <<completion, embed, context, llm>>
    /\ LET found == lookup_strategy(_strategies, strategy_type)
           f == [FactoryIdle EXCEPT !.strategy_type = strategy_type,
                                    !.collection_name = collection_name]
           instance == [class |-> found.strategy, collection_name |-> collection_name]
       IN  /\ _strategies' = found.registry
           /\ IF found.strategy = "None"
              THEN factory' = [f EXCEPT !.result = Raised(ValueError("Unknown Strategy Type"))]
              ELSE factory' = [f EXCEPT !.constructed = Append(@, instance),
                                        !.result = IF constructor_raises THEN Raised(ProviderError)
                                                   ELSE Returned(instance)]
    /\ pc' = "done"
    /\ UNCHANGED <<qa, search, explain, store, setup>>

----------------------------------------------------------------------------
(* Module-level collection setup, lines 30-40 *)

Absent == [exists |-> FALSE, points |-> 0]
Collection(n) == [exists |-> TRUE, points |-> n]

(* runs of the setup so far, the creation calls they issued, how many of them
   were issued for a collection that existed, and whether the collection was
   absent before the first run *)
SetupStart(s) ==
    [runs |-> 0, create_calls |-> 0, replaced |-> 0, absent_at_start |-> ~ s.exists]

(* what qdrant_client.get_collection may do: it finds the collection only if
   it exists, and raises for an absent collection and for a failed call *)
GetCollectionOutcomes(s) ==
    { [raises |-> TRUE, exc |-> ProviderError] }
    \cup (IF s.exists THEN { [raises |-> FALSE, exc |-> NoExc] } ELSE {})

(* line 35: the exceptions of get_collection after which the collection is created *)
creates_after(e) == TRUE

(* lines 32-35: get_collection and its except clause *)
setup_get_collection(outcome) ==
    /\ pc = "idle"
    /\ UNCHANGED <<completion, embed, context, llm>>
    /\ setup.runs < MaxSetupRuns
    /\ IF outcome.raises /\ creates_after(outcome.exc)
       THEN /\ pc' = "setup_recreate"
            /\ setup' = setup
       ELSE /\ pc' = "done"
            /\ setup' = [setup EXCEPT !.runs = @ + 1]
    /\ UNCHANGED <<qa, search, explain, factory, _strategies, store>>

(* lines 36-40: recreate_collection drops the collection and creates it empty *)
setup_recreate_collection(raises) ==
    /\ pc = "setup_recreate"
    /\ UNCHANGED <<completion, embed, context, llm>>
    /\ store' = IF raises THEN store ELSE Collection(0)
    /\ setup' = [setup EXCEPT !.runs = @ + 1, !.create_calls = @ + 1,
                              !.replaced = IF store.exists THEN @ + 1 ELSE @]
    /\ pc' = "done"
    /\ UNCHANGED <<qa, search, explain, factory, _strategies>>

----------------------------------------------------------------------------
(* send_completion_request called on its own, as in line 373 *)

RequestTexts == { <<>>, <<"p">> }

RequestOutcomes ==
    CompleteOutcomes
    \cup { CompleteResponds(<< <<"x">>, <<"y">> >>), CompleteResponds(<< <<>>, <<"y">> >>) }

CompletionIdle ==
    [text |-> <<>>, token |-> <<>>, called |-> FALSE,
     response |-> CompleteRaises(NoExc), result |-> Pending]

(* lines 81-112 *)
completion_request(text, token, outcome) ==
    /\ pc = "idle"
    /\ completion' = [text |-> text, token |-> token, called |-> TRUE, response |-> outcome,
                      result |-> send_completion_request(text, token, outcome)]
    /\ pc' = "done"
    /\ UNCHANGED <<qa, search, explain, factory, _strategies, store, setup, embed, context, llm>>

----------------------------------------------------------------------------
(* embedd_text_aleph_alpha and embedd_text_files_aleph_alpha *)

IndexError == [type |-> "IndexError", msg |-> "list index out of range"]

Seperators == { <<"#">>, <<"#", "#">> }

FileTexts ==
    { <<>>, <<"#">>, <<"a">>, <<"a", "#">>, <<"#", "#">>, <<"#", "a", "#", "b">> }

Files ==
    { [stem |-> "f", ext |-> ".txt", text |-> t] : t \in FileTexts }
    \cup { [stem |-> "g", ext |-> ".md", text |-> <<"a">>],
           [stem |-> "h", ext |-> ".pdf", text |-> <<"a">>] }

(* text.split(seperator) for a seperator that is not empty *)
RECURSIVE Split(_, _)
Split(text, sep) ==
    LET n == Len(sep)
        hits == { i \in 1..(Len(text) - n + 1) : SubSeq(text, i, i + n - 1) = sep }
    IN  IF hits = {} THEN <<text>>
        ELSE LET i == CHOOSE h \in hits : \A k \in hits : h <= k
             IN  <<SubSeq(text, 1, i - 1)>> \o Split(SubSeq(text, i + n, Len(text)), sep)

(* lines 157-160 and 196-199: drop an empty first and an empty last element;
   text_list[-1] of an empty list raises IndexError *)
pop_empty_ends(text_list) ==
    LET popped == IF text_list[1] = <<>> THEN Tail(text_list) ELSE text_list
    IN  IF popped = <<>> THEN Raised(IndexError)
        ELSE IF popped[Len(popped)] = <<>>
        THEN Returned(SubSeq(popped, 1, Len(popped) - 1))
        ELSE Returned(popped)

(* lines 164 and 209 *)
metadata_list(metadata, text_list) == [i \in 1..Len(text_list) |-> <<metadata, i - 1>>]

(* line 186 *)
is_text_file(file) == file.ext \in { ".txt", ".md" }

EmbedIdle ==
    [op |-> "none", files |-> <<>>, seperator |-> <<>>, i |-> 0, text_list |-> <<>>,
     metadata |-> "none", processed |-> <<>>, add_texts_calls |-> <<>>, result |-> Pending]

(* what vector_db.add_texts may do: it stores the texts only in an existing
   collection with room for them *)
AddTextsOutcomes(s, texts) ==
    { [raises |-> TRUE, exc |-> ProviderError] }
    \cup (IF s.exists /\ s.points + Len(texts) <= MaxPoints
          THEN { [raises |-> FALSE, exc |-> NoExc] } ELSE {})

(* lines 184-209 for the files from position i on: files of other kinds are
   passed over, the first text file is read and split *)
RECURSIVE read_files(_, _)
read_files(f, i) ==
    IF i > Len(f.files) THEN <<[f EXCEPT !.i = i, !.result = Returned(<<>>)], "done">>
    ELSE IF ~ is_text_file(f.files[i]) THEN read_files(f, i + 1)
    ELSE LET text == f.files[i].text
             r == pop_empty_ends(Split(text, f.seperator))
             seen(o) == [f EXCEPT !.i = i, !.processed =
                            Append(@, [file |-> i, text |-> text, outcome |-> o])]
         IN  IF r.kind = "raise"
             THEN <<[seen(r) EXCEPT !.result = r], "done">>
             ELSE IF r.value = <<>>
             THEN <<[seen(Raised(ValueError("Text is empty.")))
                        EXCEPT !.result = Raised(ValueError("Text is empty."))], "done">>
             ELSE <<[seen(r) EXCEPT !.text_list = r.value, !.metadata = f.files[i].stem],
                    "embed_add_texts">>

(* lines 181-209, up to the first add_texts *)
embedd_text_files_aleph_alpha(files, seperator, connection) ==
    /\ pc = "idle"
    /\ LET f == [EmbedIdle EXCEPT !.op = "files", !.files = files, !.seperator = seperator]
           next == read_files(f, 1)
       IN  IF connection.raises
           THEN /\ embed' = [f EXCEPT !.result = Raised(connection.exc)]
                /\ pc' = "done"
           ELSE /\ embed' = next[1]
                /\ pc' = next[2]
    /\ UNCHANGED <<qa, search, explain, factory, _strategies, store, setup,
                   completion, context, llm>>

(* lines 151-164 *)
embedd_text_aleph_alpha(text, file_name, seperator, connection) ==
    /\ pc = "idle"
    /\ LET f == [EmbedIdle EXCEPT !.op = "text", !.seperator = seperator, !.i = 1,
                     !.files = <<[stem |-> file_name, ext |-> "", text |-> text]>>]
           r == pop_empty_ends(Split(text, seperator))
       IN  IF connection.raises
           THEN /\ embed' = [f EXCEPT !.result = Raised(connection.exc)]
                /\ pc' = "done"
           ELSE IF r.kind = "raise"
           THEN /\ embed' = [f EXCEPT !.processed = <<[file |-> 1, text |-> text, outcome |-> r]>>,
                                      !.result = r]
                /\ pc' = "done"
           ELSE /\ embed' = [f EXCEPT !.processed = <<[file |-> 1, text |-> text, outcome |-> r]>>,
                                      !.text_list = r.value, !.metadata = file_name]
                /\ pc' = "embed_add_texts"
    /\ UNCHANGED <<qa, search, explain, factory, _strategies, store, setup,
                   completion, context, llm>>

(* lines 166 and 210: add_texts, then the rest of the loop over the files *)
add_texts(outcome) ==
    /\ pc = "embed_add_texts"
    /\ LET f == [embed EXCEPT !.add_texts_calls =
                     Append(@, [file |-> embed.i, texts |-> embed.text_list,
                                metadatas |-> metadata_list(embed.metadata, embed.text_list)])]
           next == IF embed.op = "files" THEN read_files(f, embed.i + 1)
                   ELSE <<[f EXCEPT !.result = Returned(<<>>)], "done">>
       IN  IF outcome.raises
           THEN /\ embed' = [f EXCEPT !.result = Raised(outcome.exc)]
                /\ pc' = "done"
                /\ store' = store
           ELSE /\ embed' = next[1]
                /\ pc' = next[2]
                /\ store' = [store EXCEPT !.points = @ + Len(embed.text_list)]
    /\ UNCHANGED <<qa, search, explain, factory, _strategies, setup, completion, context, llm>>

----------------------------------------------------------------------------
(* LLMContext *)

TypeError == [type |-> "TypeError", msg |-> "missing required argument"]

NoInstance == [class |-> "None", collection_name |-> "none"]

ContextIdle ==
    [method |-> "none", strategy_type |-> "none", collection_name |-> "none",
     before |-> NoInstance, delegate |-> NoInstance, result |-> Pending]

(* line 36: the parameters of get_strategy, none of them with a default *)
GetStrategyParameters == { "strategy_type", "token", "collection_name" }

(* line 71: the keyword arguments change_strategy passes *)
ChangeStrategyArguments == { "strategy_type", "collection_name" }

(* line 71: a call of get_strategy with these keyword arguments; a missing
   argument raises TypeError before the body of lines 54-58 runs *)
call_get_strategy(registry, arguments, strategy_type, collection_name, constructor_raises) ==
    IF GetStrategyParameters \ arguments # {}
    THEN [result |-> Raised(TypeError), registry |-> registry]
    ELSE LET found == lookup_strategy(registry, strategy_type)
             instance == [class |-> found.strategy, collection_name |-> collection_name]
         IN  [result |-> IF found.strategy = "None"
                         THEN Raised(ValueError("Unknown Strategy Type"))
                         ELSE IF constructor_raises THEN Raised(ProviderError)
                         ELSE Returned(instance),
              registry |-> found.registry]

(* lines 69-71 *)
change_strategy(strategy_type, collection_name, constructor_raises) ==
    /\ pc = "idle"
    /\ LET r == call_get_strategy(_strategies, ChangeStrategyArguments, strategy_type,
                                  collection_name, constructor_raises)
       IN  /\ llm' = IF r.result.kind = "return" THEN r.result.value ELSE llm
           /\ _strategies' = r.registry
           /\ context' = [ContextIdle EXCEPT !.method = "change_strategy",
                                             !.strategy_type = strategy_type,
                                             !.collection_name = collection_name,
                                             !.before = llm, !.result = r.result]
    /\ pc' = "done"
    /\ UNCHANGED <<qa, search, explain, factory, store, setup, completion, embed>>

ContextMethods == { "search", "embed_documents", "create_collection", "summarize_text" }

(* lines 73-87: each wrapper hands the call to self.llm *)
context_call(method, raises) ==
    /\ pc = "idle"
    /\ context' = [ContextIdle EXCEPT !.method = method, !.before = llm, !.delegate = llm,
                                      !.result = IF raises THEN Raised(ProviderError)
                                                 ELSE Returned(<<>>)]
    /\ pc' = "done"
    /\ UNCHANGED <<qa, search, explain, factory, _strategies, store, setup,
                   completion, embed, llm>>

----------------------------------------------------------------------------
(* The caller takes the result and the frame of the finished call is dropped,
   as in the sequence of calls of lines 392-396 *)
next_call ==
    /\ pc = "done"
    /\ pc' = "idle"
    /\ qa' = QaIdle /\ search' = SearchIdle /\ explain' = ExplainIdle /\ factory' = FactoryIdle
    /\ completion' = CompletionIdle /\ embed' = EmbedIdle /\ context' = ContextIdle
    /\ UNCHANGED <<_strategies, store, setup, llm>>

----------------------------------------------------------------------------

Init ==
    /\ pc = "idle"
    /\ qa = QaIdle
    /\ search = SearchIdle
    /\ explain = ExplainIdle
    /\ factory = FactoryIdle
    /\ _strategies = Registry
    /\ store \in { Absent } \cup { Collection(n) : n \in 0..MaxPoints }
    /\ setup = SetupStart(store)
    /\ completion = CompletionIdle
    /\ embed = EmbedIdle
    /\ context = ContextIdle
    /\ llm = [class |-> "AlephAlphaService", collection_name |-> "Aleph_Alpha"]

Next ==
    \/ /\ pc = "idle"
       /\ \E d \in SeqsUpTo(Documents, MaxDocs), q \in Queries, s \in BOOLEAN, t \in Tokens :
             qa_aleph_alpha(d, q, s, t)
    \/ /\ pc = "qa_summarize_documents"
       /\ \E o \in SummarizeOutcomes : qa_summarize_document(o)
    \/ /\ pc = "qa_complete"
       /\ \E o \in CompleteOutcomes : qa_complete(o)
    \/ /\ pc = "qa_fallback_summarize"
       /\ \E o \in SummarizeOutcomes : qa_fallback_summarize(o)
    \/ /\ pc = "qa_retry"
       /\ \E o \in CompleteOutcomes : qa_retry(o)
    \/ /\ pc = "idle"
       /\ \E t \in Tokens, q \in Queries \cup { <<>> }, a \in Amounts :
             search_documents_aleph_alpha(t, q, a)
    \/ /\ pc = "search_connect"
       /\ \E o \in ConnectionOutcomes : search_connect(o)
    \/ /\ pc = "search_query"
       /\ \E o \in SimilarityOutcomes(search.amount) : search_query(o)
    \/ /\ pc = "idle"
       /\ \E p \in ExplainPrompts, out \in Outputs, t \in Tokens :
             \E o \in ExplainOutcomes(p) : explain_completion(p, out, t, o)
    \/ /\ pc = "idle"
       /\ \E s \in StrategyTypes, t \in Tokens, c \in CollectionNames, r \in BOOLEAN :
             get_strategy(s, t, c, r)
    \/ /\ pc = "idle"
       /\ \E o \in GetCollectionOutcomes(store) : setup_get_collection(o)
    \/ /\ pc = "setup_recreate"
       /\ \E r \in BOOLEAN : setup_recreate_collection(r)
    \/ /\ pc = "idle"
       /\ \E x \in RequestTexts, t \in Tokens, o \in RequestOutcomes :
             completion_request(x, t, o)
    \/ /\ pc = "idle"
       /\ \E f \in SeqsUpTo(Files, MaxFiles), s \in Seperators, c \in ConnectionOutcomes :
             embedd_text_files_aleph_alpha(f, s, c)
    \/ /\ pc = "idle"
       /\ \E x \in FileTexts, s \in Seperators, c \in ConnectionOutcomes :
             embedd_text_aleph_alpha(x, "f", s, c)
    \/ /\ pc = "embed_add_texts"
       /\ \E o \in AddTextsOutcomes(store, embed.text_list) : add_texts(o)
    \/ /\ pc = "idle"
       /\ \E s \in StrategyTypes, c \in CollectionNames, r \in BOOLEAN :
             change_strategy(s, c, r)
    \/ /\ pc = "idle"
       /\ \E m \in ContextMethods, r \in BOOLEAN : context_call(m, r)
    \/ next_call

Spec == Init /\ [][Next]_vars

----------------------------------------------------------------------------
(* Properties of qa_aleph_alpha *)

FallbackCalls == SelectSeq(qa.summarize_calls, LAMBDA c : c.phase = "fallback")
AggregateCalls == SelectSeq(qa.summarize_calls, LAMBDA c : c.phase = "aggregate")

FallbackSucceeded ==
    /\ Len(qa.completion_calls) = 2
    /\ qa.completion_calls[1].outcome = Raised(ValueError("PROMPT_TOO_LONG"))
    /\ qa.completion_calls[2].outcome.kind = "return"

(* C1: when the first completion call fails with "prompt too long" and the
   next one succeeds, the fallback has called summarize exactly once, on the
   aggregated text that the first prompt was rendered from, the second prompt
   is the QA prompt rendered from that summary, there are exactly two
   completion calls, and the answer returned is the second call's result. *)
C1_LongPromptFallback ==
    FallbackSucceeded =>
        /\ Len(FallbackCalls) = 1
        /\ qa.completion_calls[1].prompt = generate_prompt(FallbackCalls[1].text, qa.query)
        /\ FallbackCalls[1].outcome.kind = "return"
        /\ qa.completion_calls[2].prompt =
               generate_prompt(FallbackCalls[1].outcome.value, qa.query)
        /\ pc = "done"
        /\ qa.result.kind = "return"
        /\ qa.result.value[1] = qa.completion_calls[2].outcome.value

C1_Witness ==
    /\ FallbackSucceeded
    /\ Len(qa.documents) = 2
    /\ qa.result.kind = "return"

(* C2: at most two completion calls and at most one fallback summarize per
   execution; after the second completion call the operation is over, and a
   failure of that call, "prompt too long" included, is the error the caller
   gets. *)
C2_BoundedRetry ==
    /\ Len(qa.completion_calls) <= 2
    /\ Len(FallbackCalls) <= 1
    /\ Len(qa.completion_calls) = 2 => pc = "done"
    /\ (Len(qa.completion_calls) = 2 /\ qa.completion_calls[2].outcome.kind = "raise")
          => qa.result = Raised(qa.completion_calls[2].outcome.exc)

C2_Witness ==
    /\ Len(qa.completion_calls) = 2
    /\ qa.completion_calls[2].outcome = Raised(ValueError("PROMPT_TOO_LONG"))
    /\ qa.result = Raised(ValueError("PROMPT_TOO_LONG"))

(* C3: when the first completion call fails with an error other than "prompt
   too long", the caller gets that same error, and there is no summarize call
   of the fallback and no second completion call. *)
C3_ErrorPropagates ==
    (/\ Len(qa.completion_calls) >= 1
     /\ qa.completion_calls[1].outcome.kind = "raise"
     /\ qa.completion_calls[1].outcome.exc.msg # "PROMPT_TOO_LONG")
    => /\ pc = "done"
       /\ qa.result = Raised(qa.completion_calls[1].outcome.exc)
       /\ Len(FallbackCalls) = 0
       /\ Len(qa.completion_calls) = 1

(* C8: the prompt returned is the prompt of the completion call that gave the
   returned answer: the prompt rendered from the aggregated text when the
   first call succeeded, the prompt rendered from the summary after the
   fallback. *)
C8_ReturnedPrompt ==
    qa.result.kind = "return" =>
        LET n == Len(qa.completion_calls)
        IN  /\ n \in 1..2
            /\ qa.completion_calls[n].outcome = Returned(qa.result.value[1])
            /\ qa.result.value[2] = qa.completion_calls[n].prompt
            /\ n = 1 => qa.result.value[2] = generate_prompt(qa.text, qa.query)
            /\ n = 2 => qa.result.value[2] =
                            generate_prompt(FallbackCalls[1].outcome.value, qa.query)

C8_Witness ==
    /\ qa.result.kind = "return"
    /\ Len(qa.completion_calls) = 2
    /\ qa.result.value[2] # qa.completion_calls[1].prompt

(* C9: with exactly one document the first prompt is rendered from that
   document's content as it is, the metadata is that document's metadata, and
   no summarize call precedes the first completion call, with summarization
   on or off. *)
C9_SingleDocument ==
    Len(qa.documents) = 1 =>
        /\ Len(AggregateCalls) = 0
        /\ pc = "qa_complete" => qa.summarize_calls = <<>>
        /\ Len(qa.completion_calls) >= 1 =>
               qa.completion_calls[1].prompt =
                   generate_prompt(qa.documents[1][1].page_content, qa.query)
        /\ qa.meta_data = MetaOfDocument(qa.documents[1])
        /\ qa.result.kind = "return" => qa.result.value[3] = MetaOfDocument(qa.documents[1])

C9_Witness ==
    /\ Len(qa.documents) = 1
    /\ qa.summarization
    /\ qa.result.kind = "return"
    /\ Len(qa.completion_calls) = 1

----------------------------------------------------------------------------
(* Properties of search_documents_aleph_alpha *)

(* C4: a search with an empty token, an empty query or an amount below 1 ends
   with the ValueError of the validation, not the wrapped retrieval error, and
   with no connection to the vector store and no similarity search. *)
C4_SearchValidation ==
    (/\ search # SearchIdle
     /\ \/ search.aleph_alpha_token = <<>>
        \/ search.query = <<>>
        \/ search.amount < 1)
    => /\ pc = "done"
       /\ search.result.kind = "raise"
       /\ search.result.exc.type = "ValueError"
       /\ search.connection_calls = 0
       /\ search.search_calls = 0

C4_Witness ==
    /\ search.aleph_alpha_token # <<>>
    /\ search.query # <<>>
    /\ search.amount < 1
    /\ search.result = Raised(ValueError("Amount must be greater than 0."))

----------------------------------------------------------------------------
(* Properties of explain_completion *)

(* C5: explain_completion with an empty prompt, output or token fails with a
   ValueError before any call to the explain endpoint. *)
C5_ExplainValidation ==
    (/\ explain # ExplainIdle
     /\ \/ explain.prompt = <<>>
        \/ explain.output = <<>>
        \/ explain.token = <<>>)
    => /\ explain.result.kind = "raise"
       /\ explain.result.exc.type = "ValueError"
       /\ explain.explain_calls = 0

(* C7: the mapping returned by explain_completion lists its spans in
   descending order of score. *)
C7_DescendingScores ==
    explain.result.kind = "return" =>
        \A i, j \in 1..Len(explain.result.value) :
            i < j => explain.result.value[i].value >= explain.result.value[j].value

----------------------------------------------------------------------------
(* Properties of LLMStrategyFactory.get_strategy *)

(* C6: an identifier outside the registry gives the ValueError "Unknown
   Strategy Type" and no client is constructed; a registered identifier
   constructs one client, of the class registered for it; the registry stays
   what it was. *)
C6_Factory ==
    /\ _strategies = Registry
    /\ factory # FactoryIdle =>
          IF factory.strategy_type \in ProviderIds
          THEN factory.constructed =
                   << [class |-> Registry[factory.strategy_type],
                       collection_name |-> factory.collection_name] >>
          ELSE /\ factory.result = Raised(ValueError("Unknown Strategy Type"))
               /\ factory.constructed = <<>>

C6_Witness ==
    /\ factory.strategy_type = "invalid_provider"
    /\ factory.result = Raised(ValueError("Unknown Strategy Type"))

----------------------------------------------------------------------------
(* Properties of the collection setup *)

(* C10: the setup issues a creation call only for an absent collection, so
   an existing collection is never replaced, and two runs issue exactly one
   creation call when the collection was absent and none when it existed. *)
C10_Idempotent ==
    /\ setup.replaced = 0
    /\ pc = "setup_recreate" => ~ store.exists
    /\ setup.runs = 2 => setup.create_calls = IF setup.absent_at_start THEN 1 ELSE 0

----------------------------------------------------------------------------
(* Properties of send_completion_request *)

(* C11: send_completion_request never returns an empty string; when the
   provider answers with no completion or with an empty first completion the
   call raises the ValueError for an empty response, and when it answers with
   a first completion that is not empty the call returns that text as it is. *)
C11_NeverEmpty ==
    completion.called =>
        /\ completion.result.kind = "return" => completion.result.value # <<>>
        /\ (/\ completion.text # <<>>
            /\ completion.token # <<>>
            /\ ~ completion.response.raises)
           => IF \/ completion.response.completions = <<>>
                 \/ completion.response.completions[1] = <<>>
              THEN /\ completion.result.kind = "raise"
                   /\ completion.result.exc.type = "ValueError"
                   /\ completion.result.exc.msg \in { "Response is empty.", "Completion is empty." }
              ELSE completion.result = Returned(completion.response.completions[1])

C11_Witness ==
    /\ completion.called
    /\ completion.response.completions = << <<>>, <<"y">> >>
    /\ completion.result = Raised(ValueError("Completion is empty."))

----------------------------------------------------------------------------
(* Properties of the embedding of texts *)

NoSegments(text, sep) == Split(text, sep) \in { << <<>> >>, << <<>>, <<>> >> }

(* C12: a text that is empty or only the separator ends, in
   embedd_text_files_aleph_alpha and in embedd_text_aleph_alpha alike, with
   the ValueError "Text is empty." and without an add_texts call for it, and
   add_texts is never called with an empty list of texts. *)
C12_EmptyText ==
    /\ \A k \in 1..Len(embed.processed) :
          NoSegments(embed.processed[k].text, embed.seperator) =>
              /\ embed.processed[k].outcome = Raised(ValueError("Text is empty."))
              /\ \A j \in 1..Len(embed.add_texts_calls) :
                    embed.add_texts_calls[j].file # embed.processed[k].file
    /\ \A j \in 1..Len(embed.add_texts_calls) : embed.add_texts_calls[j].texts # <<>>

----------------------------------------------------------------------------
(* Properties of LLMContext *)

(* C13: change_strategy with a registered identifier ends without error and
   leaves in llm a client of the class registered for it, with an identifier
   that is not registered it ends with the ValueError "Unknown Strategy Type"
   and llm is what it was, and every wrapper hands its call to the current
   llm. *)
C13_ChangeStrategy ==
    /\ context.method = "change_strategy" =>
          IF context.strategy_type \in ProviderIds
          THEN /\ context.result.kind = "return"
               /\ llm = [class |-> Registry[context.strategy_type],
                         collection_name |-> context.collection_name]
          ELSE /\ context.result = Raised(ValueError("Unknown Strategy Type"))
               /\ llm = context.before
    /\ context.method \in ContextMethods => context.delegate = llm

====
